---- MODULE Spec2Model ----
(***************************************************************************)
(* Model of examples/language_model/chatglm/finetune_generation.py:        *)
(* the driver main() as a linear state machine over the parsed arguments   *)
(* and the file system it inspects, with a log of the framework calls it   *)
(* makes, and the metric function compute_metrics as a pure operator.      *)
(***************************************************************************)
EXTENDS Integers, Sequences, FiniteSets, TLC

\* ---------------------------------------------------------------- bounds
MaxCheckpoint == 2
MaxEntries == 3
MaxGenerateNum == 2
MaxElems == 4

\* ------------------------------------------------------------- constants
None == "None"
IgnoreIndex == -100

VARIABLES
    pc,              \* position of main()
    fs,              \* the file system main() inspects
    training_args,   \* TrainingArguments fields main() reads
    model_args,      \* ModelArgument fields main() reads
    data_args,       \* DataArgument fields main() reads
    last_checkpoint, \* local of main()
    error,           \* the exception main() ended with, or None
    model,           \* wrappers of the model, innermost first
    marks,           \* trainability markings applied, in order
    tokenizer,
    trans_func,
    train_ds,
    dev_ds,
    test_ds,
    trainer,         \* arguments ChatGLMTrainer was constructed with
    calls,           \* framework calls made so far, in order
    predictions,     \* eval_preds.predictions handed to compute_metrics
    label_ids,       \* eval_preds.label_ids handed to compute_metrics
    metrics          \* what compute_metrics returned

mainVars == <<pc, fs, training_args, model_args, data_args, last_checkpoint, error,
              model, marks, tokenizer, trans_func, train_ds, dev_ds, test_ds,
              trainer, calls>>
metricVars == <<predictions, label_ids, metrics>>
vars == <<mainVars, metricVars>>

\* ------------------------------------------------------------ file system
CheckpointPath(n) == "checkpoint-" \o ToString(n)

\* what main() observes of training_args.output_dir: whether it is a directory,
\* how many entries it lists, and what get_last_checkpoint returns for it
NotADir == [isdir |-> FALSE, entries |-> 0, last_checkpoint |-> None]

\* a checkpoint that is found is one of the entries
OutputDirs ==
    {NotADir} \cup
    { d \in [isdir : {TRUE}, entries : 0..MaxEntries,
             last_checkpoint : {None} \cup {CheckpointPath(n) : n \in 1..MaxCheckpoint}] :
        d.last_checkpoint # None => d.entries >= 1 }

FileSystems ==
    [output_dir : OutputDirs, train_json : BOOLEAN, dev_json : BOOLEAN]

\* os.path.isdir(training_args.output_dir)
isdir(d) == d.isdir

\* len(os.listdir(training_args.output_dir))
listdir_len(d) == d.entries

\* line 80: the value get_last_checkpoint(training_args.output_dir) returns
get_last_checkpoint(d) == d.last_checkpoint

\* ---------------------------------------------------------------- inputs
TrainingArgsSet ==
    [do_train : BOOLEAN, do_eval : BOOLEAN, overwrite_output_dir : BOOLEAN,
     resume_from_checkpoint : {None, "user-checkpoint"}]

ModelArgsSet ==
    [prefix_tuning : BOOLEAN, lora : BOOLEAN, do_generation : BOOLEAN]

DataArgsSet == [generate_num : (-1)..MaxGenerateNum]

NoDataset == [source |-> None, split |-> None, trans_func |-> None, is_test |-> None]
NoTrainer == [built |-> FALSE]

ValueErrorNotEmpty == "ValueError: Output directory already exists and is not empty"

\* ------------------------------------------------------------------ main
Call(fn) == [fn |-> fn]

\* lines 65-66 and the state of main() before line 78: the three argument
\* records are whatever the command line gave
Init ==
    /\ pc = "check_output_dir"
    /\ fs \in FileSystems
    /\ training_args \in TrainingArgsSet
    /\ model_args \in ModelArgsSet
    /\ data_args \in DataArgsSet
    /\ last_checkpoint = None
    /\ error = None
    /\ model = <<>>
    /\ marks = <<>>
    /\ tokenizer = None
    /\ trans_func = None
    /\ train_ds = NoDataset
    /\ dev_ds = NoDataset
    /\ test_ds = NoDataset
    /\ trainer = NoTrainer
    /\ calls = <<>>
    /\ predictions = <<>>
    /\ label_ids = <<>>
    /\ metrics = [computed |-> FALSE]

\* line 79: the output directory is inspected only when training into an
\* existing directory without overwrite_output_dir
InspectsOutputDir(d, ta) ==
    isdir(d) /\ ta.do_train /\ ~ta.overwrite_output_dir

\* line 81: no checkpoint to resume from, and more than one entry
RefusesOutputDirAbove2(ckpt, d) == ckpt = None /\ listdir_len(d) > 2
RefusesOutputDir(ckpt, d) == ckpt = None /\ listdir_len(d) > 1

\* lines 78-90 with a raise that does not end the run
CheckOutputDirNotFatal ==
    /\ pc = "check_output_dir"
    /\ LET d == fs.output_dir
           ckpt == IF InspectsOutputDir(d, training_args)
                   THEN get_last_checkpoint(d) ELSE None
       IN /\ last_checkpoint' = ckpt
          /\ error' = IF InspectsOutputDir(d, training_args) /\ RefusesOutputDir(ckpt, d)
                      THEN ValueErrorNotEmpty ELSE None
          /\ pc' = "load_model"
    /\ UNCHANGED <<fs, training_args, model_args, data_args, model, marks, tokenizer,
                   trans_func, train_ds, dev_ds, test_ds, trainer, calls, metricVars>>

\* lines 78-90
CheckOutputDir ==
    /\ pc = "check_output_dir"
    /\ LET d == fs.output_dir
           ckpt == IF InspectsOutputDir(d, training_args)
                   THEN get_last_checkpoint(d) ELSE None
       IN /\ last_checkpoint' = ckpt
          /\ IF InspectsOutputDir(d, training_args) /\ RefusesOutputDir(ckpt, d)
             THEN /\ error' = ValueErrorNotEmpty
                  /\ pc' = "raised"
             ELSE /\ error' = None
                  /\ pc' = "load_model"
    /\ UNCHANGED <<fs, training_args, model_args, data_args, model, marks, tokenizer,
                   trans_func, train_ds, dev_ds, test_ds, trainer, calls, metricVars>>

\* lines 98-104: ChatGLMForConditionalGeneration.from_pretrained
LoadModel ==
    /\ pc = "load_model"
    /\ model' = <<"ChatGLMForConditionalGeneration">>
    /\ calls' = Append(calls, Call("ChatGLMForConditionalGeneration.from_pretrained"))
    /\ pc' = "prefix_tuning"
    /\ UNCHANGED <<fs, training_args, model_args, data_args, last_checkpoint, error,
                   marks, tokenizer, trans_func, train_ds, dev_ds, test_ds, trainer,
                   metricVars>>

\* lines 105-122
ApplyPrefixTuning ==
    /\ pc = "prefix_tuning"
    /\ IF model_args.prefix_tuning
       THEN /\ model' = Append(model, "PrefixModelForCausalLM")
            /\ marks' = Append(marks, "mark_only_prefix_as_trainable")
       ELSE UNCHANGED <<model, marks>>
    /\ pc' = "lora"
    /\ UNCHANGED <<fs, training_args, model_args, data_args, last_checkpoint, error,
                   tokenizer, trans_func, train_ds, dev_ds, test_ds, trainer, calls,
                   metricVars>>

\* lines 123-139 written as the elif branch of the prefix_tuning test
ApplyLoRAElif ==
    /\ pc = "lora"
    /\ IF model_args.lora /\ ~model_args.prefix_tuning
       THEN /\ model' = Append(model, "LoRAModel")
            /\ marks' = Append(marks, "mark_only_lora_as_trainable")
       ELSE UNCHANGED <<model, marks>>
    /\ pc' = "load_dataset"
    /\ UNCHANGED <<fs, training_args, model_args, data_args, last_checkpoint, error,
                   tokenizer, trans_func, train_ds, dev_ds, test_ds, trainer, calls,
                   metricVars>>

\* lines 123-139
ApplyLoRA ==
    /\ pc = "lora"
    /\ IF model_args.lora
       THEN /\ model' = Append(model, "LoRAModel")
            /\ marks' = Append(marks, "mark_only_lora_as_trainable")
       ELSE UNCHANGED <<model, marks>>
    /\ pc' = "load_dataset"
    /\ UNCHANGED <<fs, training_args, model_args, data_args, last_checkpoint, error,
                   tokenizer, trans_func, train_ds, dev_ds, test_ds, trainer, calls,
                   metricVars>>

\* lines 143-145: both local files exist
UseLocalFilesEither(f) == f.train_json \/ f.dev_json
UseLocalFiles(f) == f.train_json /\ f.dev_json

\* Dataset.map(fn): the dataset converted by fn; is_test is "False" when
\* partial(trans_func, is_test=False) is mapped and "default" when trans_func
\* itself is
Map(ds, fn, is_test) == [ds EXCEPT !.trans_func = fn, !.is_test = is_test]

\* lines 140-155
LoadDataset ==
    /\ pc = "load_dataset"
    /\ tokenizer' = "ChatGLMTokenizer"
    /\ IF UseLocalFiles(fs)
       THEN /\ train_ds' = [NoDataset EXCEPT !.source = "read_local_dataset",
                                             !.split = "train.json"]
            /\ dev_ds' = [NoDataset EXCEPT !.source = "read_local_dataset",
                                           !.split = "dev.json"]
            /\ trans_func' = "convert_example"
            /\ calls' = calls \o <<[fn |-> "load_dataset", source |-> "read_local_dataset",
                                    split |-> "train.json"],
                                   [fn |-> "load_dataset", source |-> "read_local_dataset",
                                    split |-> "dev.json"]>>
       ELSE /\ train_ds' = [NoDataset EXCEPT !.source = "bellegroup", !.split = "train"]
            /\ dev_ds' = [NoDataset EXCEPT !.source = "bellegroup", !.split = "dev"]
            /\ trans_func' = "custom_instruction_convert_example"
            /\ calls' = Append(calls, [fn |-> "load_dataset", source |-> "bellegroup",
                                       split |-> "train,dev"])
    /\ pc' = "map_dataset"
    /\ UNCHANGED <<fs, training_args, model_args, data_args, last_checkpoint, error,
                   model, marks, test_ds, trainer, metricVars>>

\* lines 156-161: how the test set is converted
TestModeNever(ma) == "False"
TestMode(ma) == IF ma.do_generation THEN "default" ELSE "False"

\* lines 156-161
MapDataset ==
    /\ pc = "map_dataset"
    /\ train_ds' = Map(train_ds, trans_func, "False")
    /\ test_ds' = Map(dev_ds, trans_func, TestMode(model_args))
    /\ pc' = "build_trainer"
    /\ UNCHANGED <<fs, training_args, model_args, data_args, last_checkpoint, error,
                   model, marks, tokenizer, trans_func, dev_ds, trainer, calls,
                   metricVars>>

\* the keys of the dictionary each metric function returns (lines 183-188, 196-198)
MetricKeys(fn) ==
    IF fn = "compute_metrics_do_generation"
    THEN {"rouge1", "rouge2", "rougel", "bleu4"}
    ELSE {"accuracy"}

\* line 206
MetricFn(ma) ==
    IF ma.do_generation THEN "compute_metrics_do_generation" ELSE "compute_metrics"

\* lines 200-210
BuildTrainer ==
    /\ pc = "build_trainer"
    /\ trainer' = [built |-> TRUE,
                   model |-> model,
                   train_dataset |-> train_ds,
                   eval_dataset |-> dev_ds,
                   tokenizer |-> tokenizer,
                   compute_metrics |-> MetricFn(model_args),
                   do_generation |-> model_args.do_generation]
    /\ pc' = "train"
    /\ UNCHANGED <<fs, training_args, model_args, data_args, last_checkpoint, error,
                   model, marks, tokenizer, trans_func, train_ds, dev_ds, test_ds,
                   calls, metricVars>>

\* line 215: the resume_from_checkpoint argument of trainer.train
ResumeFromUser(ckpt, ta) == ta.resume_from_checkpoint
ResumeFrom(ckpt, ta) == ckpt

\* lines 215-219
TrainCallsStateFirst(resume) ==
    << [fn |-> "trainer.train", resume_from_checkpoint |-> resume],
       [fn |-> "trainer.save_state"],
       [fn |-> "trainer.save_model"],
       [fn |-> "trainer.log_metrics", split |-> "train", metrics |-> "train_result.metrics"],
       [fn |-> "trainer.save_metrics", split |-> "train", metrics |-> "train_result.metrics"] >>
TrainCalls(resume) ==
    << [fn |-> "trainer.train", resume_from_checkpoint |-> resume],
       [fn |-> "trainer.save_model"],
       [fn |-> "trainer.log_metrics", split |-> "train", metrics |-> "train_result.metrics"],
       [fn |-> "trainer.save_metrics", split |-> "train", metrics |-> "train_result.metrics"],
       [fn |-> "trainer.save_state"] >>

\* lines 214-219
DoTrain ==
    /\ pc = "train"
    /\ calls' = IF training_args.do_train
                THEN calls \o TrainCalls(ResumeFrom(last_checkpoint, training_args))
                ELSE calls
    /\ pc' = "eval"
    /\ UNCHANGED <<fs, training_args, model_args, data_args, last_checkpoint, error,
                   model, marks, tokenizer, trans_func, train_ds, dev_ds, test_ds,
                   trainer, metricVars>>

\* lines 222-223
EvalCallsOnDev(test, dev) ==
    << [fn |-> "trainer.evaluate", dataset |-> dev],
       [fn |-> "trainer.log_metrics", split |-> "test", metrics |-> "eval_result"] >>
EvalCalls(test, dev) ==
    << [fn |-> "trainer.evaluate", dataset |-> test],
       [fn |-> "trainer.log_metrics", split |-> "test", metrics |-> "eval_result"] >>

\* lines 221-223
DoEval ==
    /\ pc = "eval"
    /\ calls' = IF training_args.do_eval
                THEN calls \o EvalCalls(test_ds, dev_ds)
                ELSE calls
    /\ pc' = "generate"
    /\ UNCHANGED <<fs, training_args, model_args, data_args, last_checkpoint, error,
                   model, marks, tokenizer, trans_func, train_ds, dev_ds, test_ds,
                   trainer, metricVars>>

\* line 225
WantsSamplesWhenGenerating(da, ma) == da.generate_num > 0 /\ ma.do_generation
WantsSamples(da, ma) == da.generate_num > 0

\* lines 225-228
DoGenerate ==
    /\ pc = "generate"
    /\ calls' = IF WantsSamples(data_args, model_args)
                THEN Append(calls, [fn |-> "save_infer_result", dataset |-> dev_ds,
                                    k |-> data_args.generate_num])
                ELSE calls
    /\ pc' = "done"
    /\ UNCHANGED <<fs, training_args, model_args, data_args, last_checkpoint, error,
                   model, marks, tokenizer, trans_func, train_ds, dev_ds, test_ds,
                   trainer, metricVars>>

Next ==
    \/ CheckOutputDir
    \/ LoadModel
    \/ ApplyPrefixTuning
    \/ ApplyLoRA
    \/ LoadDataset
    \/ MapDataset
    \/ BuildTrainer
    \/ DoTrain
    \/ DoEval
    \/ DoGenerate

Spec == Init /\ [][Next]_vars

\* --------------------------------------------------------- compute_metrics
TokenIds == {IgnoreIndex, 1, 2}

\* the shapes (rows, columns) of the arrays of eval_preds
Shapes == { sh \in (1..MaxElems) \X (1..MaxElems) : sh[1] * sh[2] <= MaxElems }

Arrays(sh) == [1..sh[1] -> [1..sh[2] -> TokenIds]]

\* np.array(a).flatten(): the rows of a one after the other
RECURSIVE flatten(_)
flatten(a) == IF a = <<>> THEN <<>> ELSE Head(a) \o flatten(Tail(a))

\* x[mask]: the elements of x at the positions where mask is TRUE
RECURSIVE BoolIndex(_, _)
BoolIndex(x, mask) ==
    IF x = <<>> THEN <<>>
    ELSE (IF Head(mask) THEN <<Head(x)>> ELSE <<>>) \o BoolIndex(Tail(x), Tail(mask))

\* sklearn.metrics.accuracy_score(y_true, y_pred) as the fraction num/den of
\* the positions where the two agree; den = 0 when there is no position
accuracy_score(y_true, y_pred) ==
    [num |-> Cardinality({k \in 1..Len(y_true) : y_true[k] = y_pred[k]}),
     den |-> Len(y_true)]

\* lines 190-198 without the filtering of lines 193-194
compute_metrics_unfiltered(preds, labels) ==
    [computed |-> TRUE,
     accuracy |-> accuracy_score(flatten(labels), flatten(preds))]

\* lines 190-198
compute_metrics(preds, labels) ==
    LET flattened_preds == flatten(preds)
        flattened_labels == flatten(labels)
        mask == [k \in 1..Len(flattened_labels) |-> flattened_labels[k] # IgnoreIndex]
        filtered_preds == BoolIndex(flattened_preds, mask)
        filtered_labels == BoolIndex(flattened_labels, mask)
    IN [computed |-> TRUE,
        accuracy |-> accuracy_score(filtered_labels, filtered_preds)]

\* the trainer is about to call compute_metrics (line 206) on the predictions
\* and labels of an evaluation: any two arrays of one shape
MetricsInit ==
    /\ pc = "compute_metrics"
    /\ fs = [output_dir |-> NotADir, train_json |-> TRUE, dev_json |-> TRUE]
    /\ training_args = [do_train |-> FALSE, do_eval |-> TRUE,
                        overwrite_output_dir |-> FALSE, resume_from_checkpoint |-> None]
    /\ model_args = [prefix_tuning |-> FALSE, lora |-> FALSE, do_generation |-> FALSE]
    /\ data_args = [generate_num |-> 0]
    /\ last_checkpoint = None
    /\ error = None
    /\ model = <<"ChatGLMForConditionalGeneration">>
    /\ marks = <<>>
    /\ tokenizer = "ChatGLMTokenizer"
    /\ trans_func = "convert_example"
    /\ train_ds = NoDataset
    /\ dev_ds = NoDataset
    /\ test_ds = NoDataset
    /\ trainer = NoTrainer
    /\ calls = <<>>
    /\ \E sh \in Shapes :
          /\ predictions \in Arrays(sh)
          /\ label_ids \in Arrays(sh)
    /\ metrics = [computed |-> FALSE]

\* lines 190-198, called by the trainer
ComputeMetrics ==
    /\ pc = "compute_metrics"
    /\ metrics' = compute_metrics(predictions, label_ids)
    /\ pc' = "metrics_returned"
    /\ UNCHANGED <<fs, training_args, model_args, data_args, last_checkpoint, error,
                   model, marks, tokenizer, trans_func, train_ds, dev_ds, test_ds,
                   trainer, calls, predictions, label_ids>>

MetricsNext == ComputeMetrics

SpecMetrics == MetricsInit /\ [][MetricsNext]_vars

\* ------------------------------------------------------------ properties
CallIndices(fns) == {i \in 1..Len(calls) : calls[i].fn \in fns}

OutputDirErrorRaised == error = ValueErrorNotEmpty

PastOutputDirCheck == pc # "check_output_dir"

RunCompleted == pc = "done"

\* C1 as stated: every run whose output_dir is an existing directory with at
\* least one entry, without overwrite_output_dir, raises the ValueError.
C1_AnyNonEmptyDirRaises ==
    (/\ PastOutputDirCheck
     /\ isdir(fs.output_dir)
     /\ listdir_len(fs.output_dir) >= 1
     /\ ~training_args.overwrite_output_dir)
    => OutputDirErrorRaised

\* C1 amended: a run with do_train set whose output_dir is an existing
\* directory holding more than one entry in which get_last_checkpoint finds
\* no checkpoint, without
\* overwrite_output_dir, raises the ValueError and ends there.
C1_TrainIntoNonEmptyDirRaises ==
    (/\ PastOutputDirCheck
     /\ training_args.do_train
     /\ isdir(fs.output_dir)
     /\ ~training_args.overwrite_output_dir
     /\ get_last_checkpoint(fs.output_dir) = None
     /\ listdir_len(fs.output_dir) > 1)
    => (OutputDirErrorRaised /\ pc = "raised")

C1_Witness ==
    /\ pc = "raised"
    /\ OutputDirErrorRaised
    /\ training_args.do_train
    /\ listdir_len(fs.output_dir) = 2

EffectFns ==
    {"ChatGLMForConditionalGeneration.from_pretrained", "load_dataset",
     "trainer.train", "trainer.save_model", "trainer.save_metrics",
     "trainer.save_state", "trainer.evaluate", "save_infer_result"}

\* C2: once the output-directory ValueError is raised, no model load, dataset
\* load, train, save_model, save_metrics, save_state, evaluate or
\* save_infer_result call has happened, and the run takes no further step.
C2_ErrorPrecedesEveryEffect ==
    OutputDirErrorRaised =>
        /\ pc = "raised"
        /\ CallIndices(EffectFns) = {}
        /\ ~ENABLED Next

C2_Witness ==
    /\ OutputDirErrorRaised
    /\ pc = "raised"
    /\ training_args.do_eval
    /\ data_args.generate_num > 0

\* C3: trainer.train gets the checkpoint found in the output directory when
\* training into an existing directory without overwrite_output_dir, and None
\* when overwrite_output_dir is set or output_dir is no directory, whatever
\* training_args.resume_from_checkpoint is; with do_train set a completed run
\* has made that call.
C3_ResumeFromOutputDirOnly ==
    /\ \A i \in CallIndices({"trainer.train"}) :
          /\ (/\ isdir(fs.output_dir)
              /\ ~training_args.overwrite_output_dir
              /\ fs.output_dir.last_checkpoint # None)
             => calls[i].resume_from_checkpoint = fs.output_dir.last_checkpoint
          /\ (training_args.overwrite_output_dir \/ ~isdir(fs.output_dir))
             => calls[i].resume_from_checkpoint = None
    /\ (RunCompleted /\ training_args.do_train)
          => CallIndices({"trainer.train"}) # {}

C3_Witness ==
    /\ RunCompleted
    /\ training_args.resume_from_checkpoint = "user-checkpoint"
    /\ \E i \in CallIndices({"trainer.train"}) :
          calls[i].resume_from_checkpoint = CheckpointPath(MaxCheckpoint)

IsTrainBlockCall(c) ==
    \/ c.fn \in {"trainer.train", "trainer.save_model", "trainer.save_state"}
    \/ (c.fn \in {"trainer.log_metrics", "trainer.save_metrics"} /\ c.split = "train")

TrainBlockIndices == {i \in 1..Len(calls) : IsTrainBlockCall(calls[i])}

FnNames(cs) == [i \in 1..Len(cs) |-> cs[i].fn]

\* C4: a completed run with do_train makes the calls train, save_model,
\* log_metrics('train'), save_metrics('train'), save_state once each, in that
\* order, all before evaluate and save_infer_result; a run without do_train
\* makes none of them.
C4_TrainBlockOnceInOrder ==
    /\ (RunCompleted /\ training_args.do_train) =>
          /\ FnNames(SelectSeq(calls, IsTrainBlockCall)) =
                <<"trainer.train", "trainer.save_model", "trainer.log_metrics",
                  "trainer.save_metrics", "trainer.save_state">>
          /\ \A i \in TrainBlockIndices :
                \A j \in CallIndices({"trainer.evaluate", "save_infer_result"}) : i < j
    /\ ~training_args.do_train => TrainBlockIndices = {}

C4_Witness ==
    /\ RunCompleted
    /\ training_args.do_train
    /\ CallIndices({"trainer.evaluate"}) # {}
    /\ CallIndices({"save_infer_result"}) # {}

EvaluatedOnceOnTestSet ==
    /\ Cardinality(CallIndices({"trainer.evaluate"})) = 1
    /\ \A i \in CallIndices({"trainer.evaluate"}) : calls[i].dataset = test_ds

EvalResultPassedTo(fn) ==
    \E i \in CallIndices({fn}) : calls[i].metrics = "eval_result"

\* C5 as stated: a completed run with do_eval evaluates once on the test
\* dataset and both logs and saves the result; without do_eval there is no
\* evaluate call.
C5_EvalMetricsLoggedAndSaved ==
    /\ (RunCompleted /\ training_args.do_eval) =>
          /\ EvaluatedOnceOnTestSet
          /\ EvalResultPassedTo("trainer.log_metrics")
          /\ EvalResultPassedTo("trainer.save_metrics")
    /\ ~training_args.do_eval => CallIndices({"trainer.evaluate"}) = {}

\* C5 amended: a completed run with do_eval evaluates once on the test dataset
\* and logs the result with log_metrics('test'), and no save_metrics call ever
\* gets the evaluation result; without do_eval there is no evaluate call.
C5_EvalMetricsLoggedOnly ==
    /\ (RunCompleted /\ training_args.do_eval) =>
          /\ EvaluatedOnceOnTestSet
          /\ \E i \in CallIndices({"trainer.log_metrics"}) :
                calls[i].metrics = "eval_result" /\ calls[i].split = "test"
    /\ ~EvalResultPassedTo("trainer.save_metrics")
    /\ ~training_args.do_eval => CallIndices({"trainer.evaluate"}) = {}

C5_Witness ==
    /\ RunCompleted
    /\ training_args.do_eval
    /\ training_args.do_train
    /\ test_ds # dev_ds
    /\ EvaluatedOnceOnTestSet

Wrapped(m, w) == \E i \in 1..Len(m) : m[i] = w

\* C7: the model handed to ChatGLMTrainer is wrapped by PrefixModelForCausalLM
\* exactly when prefix_tuning is set and by LoRAModel exactly when lora is set;
\* with neither it is the pretrained model; with both LoRA is the outermost
\* wrapper and mark_only_lora_as_trainable the last marking.
C7_WrappersFollowFlags ==
    trainer.built =>
        LET m == trainer.model IN
        /\ m[1] = "ChatGLMForConditionalGeneration"
        /\ Wrapped(m, "PrefixModelForCausalLM") <=> model_args.prefix_tuning
        /\ Wrapped(m, "LoRAModel") <=> model_args.lora
        /\ Len(m) = 1 + (IF model_args.prefix_tuning THEN 1 ELSE 0)
                      + (IF model_args.lora THEN 1 ELSE 0)
        /\ (model_args.prefix_tuning /\ model_args.lora) =>
              /\ m[2] = "PrefixModelForCausalLM"
              /\ m[Len(m)] = "LoRAModel"
              /\ marks = <<"mark_only_prefix_as_trainable", "mark_only_lora_as_trainable">>

C7_Witness ==
    /\ trainer.built
    /\ model_args.prefix_tuning
    /\ model_args.lora
    /\ Len(trainer.model) = 3

DatasetsLoaded == train_ds.source # None

\* C8: train and dev sets are read from train.json and dev.json with
\* convert_example exactly when both files exist; otherwise both come from
\* load_dataset('bellegroup', ...) with custom_instruction_convert_example;
\* the two sets never come from different sources.
C8_DatasetSource ==
    DatasetsLoaded =>
        /\ train_ds.source = dev_ds.source
        /\ IF fs.train_json /\ fs.dev_json
           THEN /\ train_ds.source = "read_local_dataset"
                /\ train_ds.split = "train.json"
                /\ dev_ds.split = "dev.json"
                /\ trans_func = "convert_example"
           ELSE /\ train_ds.source = "bellegroup"
                /\ train_ds.split = "train"
                /\ dev_ds.split = "dev"
                /\ trans_func = "custom_instruction_convert_example"
                /\ CallIndices({"load_dataset"}) # {}
                /\ \A i \in CallIndices({"load_dataset"}) : calls[i].source = "bellegroup"

C8_Witness ==
    /\ DatasetsLoaded
    /\ fs.train_json
    /\ ~fs.dev_json
    /\ dev_ds.source = "bellegroup"

\* C9: the trainer's do_generation is model_args.do_generation; the metric
\* function is compute_metrics_do_generation (rouge1, rouge2, rougel, bleu4)
\* exactly when do_generation is set and compute_metrics (accuracy) otherwise;
\* the test set is converted in test mode exactly when do_generation is set,
\* the training set always with is_test=False.
C9_GenerationConsistent ==
    trainer.built =>
        /\ trainer.do_generation = model_args.do_generation
        /\ trainer.compute_metrics = "compute_metrics_do_generation"
              <=> model_args.do_generation
        /\ trainer.compute_metrics = "compute_metrics" <=> ~model_args.do_generation
        /\ MetricKeys(trainer.compute_metrics) =
              (IF trainer.do_generation THEN {"rouge1", "rouge2", "rougel", "bleu4"}
               ELSE {"accuracy"})
        /\ test_ds.is_test = "default" <=> trainer.do_generation
        /\ test_ds.is_test = "False" <=> ~trainer.do_generation
        /\ train_ds.is_test = "False"
        /\ trainer.train_dataset = train_ds

C9_Witness ==
    /\ trainer.built
    /\ model_args.do_generation
    /\ test_ds.is_test = "default"
    /\ train_ds.is_test = "False"

Positions == {p \in (1..Len(label_ids)) \X (1..Len(label_ids[1])) : TRUE}

Counted == {p \in Positions : label_ids[p[1]][p[2]] # IgnoreIndex}

Correct == {p \in Counted : predictions[p[1]][p[2]] = label_ids[p[1]][p[2]]}

SameFraction(a, b) ==
    /\ a.den = 0 <=> b.den = 0
    /\ a.num * b.den = b.num * a.den

\* C10: the accuracy compute_metrics returns is the number of positions whose
\* label is not -100 and whose prediction equals the label over the number of
\* positions whose label is not -100, and overwriting a prediction at a
\* position whose label is -100 does not change it.
C10_AccuracyOverUnmasked ==
    metrics.computed =>
        /\ Counted # {} =>
              SameFraction(metrics.accuracy,
                           [num |-> Cardinality(Correct), den |-> Cardinality(Counted)])
        /\ \A p \in Positions \ Counted : \A v \in TokenIds :
              SameFraction(
                  compute_metrics([predictions EXCEPT ![p[1]][p[2]] = v],
                                  label_ids).accuracy,
                  metrics.accuracy)

C10_Witness ==
    /\ metrics.computed
    /\ Len(label_ids) = 2
    /\ Cardinality(Counted) = 3
    /\ Cardinality(Correct) = 1
    /\ \E p \in Positions \ Counted : predictions[p[1]][p[2]] = IgnoreIndex
    /\ metrics.accuracy = [num |-> 1, den |-> 3]

====
